---------------------------- MODULE Spec2Model ----------------------------
(***************************************************************************)
(* Model of examples/ejemplo-mlflow.ipynb: a notebook that fits DBSCAN and *)
(* KMeans on the Iris data and records the fits with mlflow.               *)
(*                                                                         *)
(* The state is the kernel (the notebook's names, the position inside the  *)
(* running cell, whether autologging is on, mlflow's stack of active runs) *)
(* and the tracking store under ./mlruns (experiments and runs), which     *)
(* outlives a kernel.  A cell is a sequence of statements; one action      *)
(* executes one statement.  The calls into mlflow, scikit-learn and the    *)
(* shell are modelled by their documented behaviour, as far as the cells   *)
(* use it, and by the outputs recorded in the notebook.                    *)
(*                                                                         *)
(* A kernel session executes the cells top to bottom (the recorded         *)
(* execution counts ascend in document order); after that any cell may be  *)
(* executed again.  A kernel may be restarted: its names are lost, the     *)
(* store is kept.                                                          *)
(***************************************************************************)
EXTENDS Integers, Sequences, FiniteSets, TLC

\* Cell executions after the top-to-bottom pass, over all sessions.
MaxReexec == 2
\* Kernel sessions over one tracking store.
MaxSessions == 2
\* Failed binds of 127.0.0.1:5000 before the server gives up (recorded output).
UiMaxAttempts == 5

(***************************************************************************)
(* Python values, as far as the notebook tells them apart.                 *)
(***************************************************************************)

\* A numeric literal: an int n is kept as 10*n tenths, a float as its tenths.
PyInt(n) == [ty |-> "int", tenths |-> 10 * n]
PyFloat(t) == [ty |-> "float", tenths |-> t]
NoVal == [ty |-> "none", tenths |-> 0]

Digit == <<"0", "1", "2", "3", "4", "5", "6", "7", "8", "9">>

RECURSIVE NatStr(_)
NatStr(n) == IF n < 10 THEN Digit[n + 1] ELSE NatStr(n \div 10) \o Digit[(n % 10) + 1]

\* str(value), which mlflow applies to a parameter value before storing it.
PyStr(v) ==
    IF v.ty = "int" THEN NatStr(v.tenths \div 10)
    ELSE IF v.ty = "float" THEN NatStr(v.tenths \div 10) \o "." \o NatStr(v.tenths % 10)
    ELSE "None"

\* The value bound to a name.  run is the run that was active when the value
\* was computed (0: none); algo and hp describe the estimator it comes from.
\* id is the experiment id when the value is one.
Mk(kind, algo, hp, run, data, metric) ==
    [kind |-> kind, algo |-> algo, hp |-> hp, run |-> run, data |-> data,
     metric |-> metric, id |-> 0]

Undef == Mk("undef", "", {}, 0, "", "")
Imported == Mk("imported", "", {}, 0, "", "")

Names ==
    {"mlflow", "np", "load_iris", "DBSCAN", "KMeans", "silhouette_score",
     "davies_bouldin_score", "db", "features", "target", "dbscan", "kmeans",
     "exp_name", "exp_id", "modelo_clusters", "trained_model", "cluster_labels",
     "score", "score_2", "input_example"}

\* DBSCAN has no predict method; KMeans has one.
HasPredict(algo) == algo = "KMeans"

(***************************************************************************)
(* The cells.  A statement names its operation, the names it binds, the    *)
(* names it reads (an unbound one raises NameError), and its arguments.    *)
(***************************************************************************)

S(op, tgts, reads, src, key, val, algo, hp) ==
    [op |-> op, tgts |-> tgts, reads |-> reads, src |-> src, key |-> key,
     val |-> val, algo |-> algo, hp |-> hp]

Hp(name, val) == [name |-> name, val |-> val]

Import(names) == S("import", names, {}, "", "", NoVal, "", {})
Attr(tgt, src, attr) == S("attr", {tgt}, {src}, src, attr, NoVal, "", {})
Construct(tgt, algo, hp) == S("construct", {tgt}, {algo}, "", "", NoVal, algo, hp)
Fit(tgts, src, method) == S("fit", tgts, {src, "features"}, src, method, NoVal, "", {})
Score(tgt, fn, src) == S("score", {tgt}, {fn, "features", src}, src, fn, NoVal, "", {})
StartRun(name) == S("start_run", {}, {"mlflow", "exp_id"}, "", name, NoVal, "", {})
LogParam(key, val) == S("log_param", {}, {"mlflow"}, "", key, val, "", {})
LogMetric(key, src) == S("log_metric", {}, {"mlflow", src}, src, key, NoVal, "", {})
InputExample == S("input_example", {"input_example"}, {"np", "features"}, "", "", NoVal, "", {})
LogModel(src, path) ==
    S("log_model", {}, {"mlflow", src, "input_example"}, src, path, NoVal, "", {})
EndRun == S("end_run", {}, {"mlflow"}, "", "", NoVal, "", {})
WithExit == S("with_exit", {}, {}, "", "", NoVal, "", {})

CellImports ==
    << Import({"mlflow"}),
       Import({"np"}),
       Import({"load_iris"}),
       Import({"DBSCAN", "KMeans"}),
       Import({"silhouette_score", "davies_bouldin_score"}) >>

CellLoad ==
    << S("load_iris", {"db"}, {"load_iris"}, "", "", NoVal, "", {}),
       Attr("features", "db", "data"),
       Attr("target", "db", "target") >>

CellAutoDBSCAN ==
    << S("autolog", {}, {"mlflow"}, "", "", NoVal, "", {}),
       Construct("dbscan", "DBSCAN", {Hp("eps", PyFloat(5)), Hp("min_samples", PyInt(5))}),
       Fit({}, "dbscan", "fit_predict") >>

CellAutoKMeans ==
    << Construct("kmeans", "KMeans", {Hp("n_clusters", PyInt(3)), Hp("random_state", PyInt(42))}),
       Fit({}, "kmeans", "fit_predict") >>

\* Faulty variant: the K=2 cell forgets to log the model.
CellK2_NoLogModel ==
    << S("const", {"exp_name"}, {}, "", "Clustering-Ejemplos", NoVal, "", {}),
       S("create_experiment", {"exp_id"}, {"mlflow", "exp_name"}, "exp_name", "", NoVal, "", {}),
       StartRun("Kmeans - K=2"),
       Construct("modelo_clusters", "KMeans", {Hp("n_clusters", PyInt(2))}),
       Fit({"trained_model"}, "modelo_clusters", "fit"),
       Attr("cluster_labels", "trained_model", "labels_"),
       Score("score", "silhouette_score", "cluster_labels"),
       LogParam("value_of_k", PyInt(2)),
       LogMetric("silhoutte_score", "score"),
       InputExample,
       EndRun,
       WithExit >>

\* Faulty variant: the K=2 cell logs its parameter before it fits and scores.
CellK2_LogsBeforeScore ==
    << S("const", {"exp_name"}, {}, "", "Clustering-Ejemplos", NoVal, "", {}),
       S("create_experiment", {"exp_id"}, {"mlflow", "exp_name"}, "exp_name", "", NoVal, "", {}),
       StartRun("Kmeans - K=2"),
       LogParam("value_of_k", PyInt(2)),
       Construct("modelo_clusters", "KMeans", {Hp("n_clusters", PyInt(2))}),
       Fit({"trained_model"}, "modelo_clusters", "fit"),
       Attr("cluster_labels", "trained_model", "labels_"),
       Score("score", "silhouette_score", "cluster_labels"),
       LogMetric("silhoutte_score", "score"),
       InputExample,
       LogModel("trained_model", "Clustering_Model"),
       EndRun,
       WithExit >>

CellK2 ==
    << S("const", {"exp_name"}, {}, "", "Clustering-Ejemplos", NoVal, "", {}),
       S("create_experiment", {"exp_id"}, {"mlflow", "exp_name"}, "exp_name", "", NoVal, "", {}),
       StartRun("Kmeans - K=2"),
       Construct("modelo_clusters", "KMeans", {Hp("n_clusters", PyInt(2))}),
       Fit({"trained_model"}, "modelo_clusters", "fit"),
       Attr("cluster_labels", "trained_model", "labels_"),
       Score("score", "silhouette_score", "cluster_labels"),
       LogParam("value_of_k", PyInt(2)),
       LogMetric("silhoutte_score", "score"),
       InputExample,
       LogModel("trained_model", "Clustering_Model"),
       EndRun,
       WithExit >>

\* Faulty variant: the K=3 cell does not log the Davies-Bouldin score.
CellK3_NoDaviesMetric ==
    << StartRun("Kmeans - K=3"),
       Construct("modelo_clusters", "KMeans", {Hp("n_clusters", PyInt(3))}),
       Fit({"trained_model"}, "modelo_clusters", "fit"),
       Attr("cluster_labels", "trained_model", "labels_"),
       Score("score", "silhouette_score", "cluster_labels"),
       Score("score_2", "davies_bouldin_score", "cluster_labels"),
       LogParam("value_of_k", PyInt(3)),
       LogMetric("silhoutte_score", "score"),
       InputExample,
       LogModel("trained_model", "Clustering_Model"),
       EndRun,
       WithExit >>

\* Faulty variant: the K=3 cell logs the k of the cell it was copied from.
CellK3_LogsWrongK ==
    << StartRun("Kmeans - K=3"),
       Construct("modelo_clusters", "KMeans", {Hp("n_clusters", PyInt(3))}),
       Fit({"trained_model"}, "modelo_clusters", "fit"),
       Attr("cluster_labels", "trained_model", "labels_"),
       Score("score", "silhouette_score", "cluster_labels"),
       Score("score_2", "davies_bouldin_score", "cluster_labels"),
       LogParam("value_of_k", PyInt(2)),
       LogMetric("silhoutte_score", "score"),
       LogMetric("davies_bouldin_score", "score_2"),
       InputExample,
       LogModel("trained_model", "Clustering_Model"),
       EndRun,
       WithExit >>

CellK3 ==
    << StartRun("Kmeans - K=3"),
       Construct("modelo_clusters", "KMeans", {Hp("n_clusters", PyInt(3))}),
       Fit({"trained_model"}, "modelo_clusters", "fit"),
       Attr("cluster_labels", "trained_model", "labels_"),
       Score("score", "silhouette_score", "cluster_labels"),
       Score("score_2", "davies_bouldin_score", "cluster_labels"),
       LogParam("value_of_k", PyInt(3)),
       LogMetric("silhoutte_score", "score"),
       LogMetric("davies_bouldin_score", "score_2"),
       InputExample,
       LogModel("trained_model", "Clustering_Model"),
       EndRun,
       WithExit >>

\* Faulty variant: the DBSCAN cell does not compute its own score.
CellDBSCAN_StaleScore ==
    << StartRun("DBSCAN"),
       Construct("modelo_clusters", "DBSCAN", {Hp("eps", PyFloat(5)), Hp("min_samples", PyInt(5))}),
       Fit({"trained_model"}, "modelo_clusters", "fit"),
       Attr("cluster_labels", "trained_model", "labels_"),
       LogParam("min_samples", PyInt(5)),
       LogParam("eps", PyFloat(5)),
       LogMetric("silhoutte_score", "score"),
       InputExample,
       LogModel("trained_model", "Clustering_Model"),
       EndRun,
       WithExit >>

CellDBSCAN ==
    << StartRun("DBSCAN"),
       Construct("modelo_clusters", "DBSCAN", {Hp("eps", PyFloat(5)), Hp("min_samples", PyInt(5))}),
       Fit({"trained_model"}, "modelo_clusters", "fit"),
       Attr("cluster_labels", "trained_model", "labels_"),
       Score("score", "silhouette_score", "cluster_labels"),
       LogParam("min_samples", PyInt(5)),
       LogParam("eps", PyFloat(5)),
       LogMetric("silhoutte_score", "score"),
       InputExample,
       LogModel("trained_model", "Clustering_Model"),
       EndRun,
       WithExit >>

CellUi ==
    << S("ui", {}, {}, "", "", NoVal, "", {}) >>

\* The code cells in document order.
CellOrder ==
    <<"imports", "load", "autoDBSCAN", "autoKMeans", "K2", "K3", "DBSCAN", "ui">>

Program(c) ==
    CASE c = "imports" -> CellImports
      [] c = "load" -> CellLoad
      [] c = "autoDBSCAN" -> CellAutoDBSCAN
      [] c = "autoKMeans" -> CellAutoKMeans
      [] c = "K2" -> CellK2
      [] c = "K3" -> CellK3
      [] c = "DBSCAN" -> CellDBSCAN
      [] c = "ui" -> CellUi
      [] OTHER -> << >>

(***************************************************************************)
(* State.                                                                  *)
(***************************************************************************)
VARIABLES
    pc,            \* [cell, idx]: the statement to execute next; cell "" when idle
    env,           \* the kernel's names
    autologOn,     \* mlflow.autolog() has been called in this kernel
    active,        \* mlflow's stack of active runs (run ids)
    withRun,       \* the run of the with-block the cell is inside (0: none)
    lastError,     \* the exception that ended the last cell ("" if none)
    passPos,       \* next cell of the top-to-bottom pass (Len(CellOrder)+1: done)
    session,       \* kernel sessions so far
    reexecs,       \* cell executions after a pass, so far
    experiments,   \* tracking store: experiment names; the id is the position
    runs,          \* tracking store: runs; the id is the position
    ui             \* the web server started by the last cell

kernel == <<pc, env, autologOn, active, withRun, lastError, passPos, session, reexecs>>
store == <<experiments, runs>>
vars == <<pc, env, autologOn, active, withRun, lastError, passPos, session, reexecs,
          experiments, runs, ui>>

Idle == [cell |-> "", idx |-> 0]
UiOff == [state |-> "off", attempts |-> 0]

Init ==
    /\ pc = Idle
    /\ env = [n \in Names |-> Undef]
    /\ autologOn = FALSE
    /\ active = << >>
    /\ withRun = 0
    /\ lastError = ""
    /\ passPos = 1
    /\ session = 1
    /\ reexecs = 0
    /\ experiments = << >>
    /\ runs = << >>
    /\ ui = UiOff


(***************************************************************************)
(* The kernel.                                                             *)
(***************************************************************************)

Running == pc.cell # ""
Cur == Program(pc.cell)[pc.idx]
Bound(names) == \A n \in names : env[n].kind # "undef"
At(op) == Running /\ Cur.op = op /\ Bound(Cur.reads)

\* The statement is done; the cell is done after its last statement.
Advance ==
    pc' = IF pc.idx = Len(Program(pc.cell)) THEN Idle ELSE [pc EXCEPT !.idx = @ + 1]

Bind(names, v) == [n \in Names |-> IF n \in names THEN v ELSE env[n]]

(***************************************************************************)
(* mlflow's fluent API over the tracking store.                            *)
(***************************************************************************)

\* The file store creates the experiment "Default" when it is first used.
InitStore(exps) == IF exps = << >> THEN <<"Default">> ELSE exps
DefaultExperiment == 1

ExperimentExists(exps, name) == \E i \in 1..Len(exps) : exps[i] = name

\* nbCalls counts the log_param, log_metric and log_model calls the notebook
\* itself made on the run; auto marks a run that autologging created.
NewRun(exp, name, auto) ==
    [exp |-> exp, name |-> name, status |-> "RUNNING", params |-> {}, metrics |-> {},
     artifacts |-> {}, auto |-> auto, nbCalls |-> 0]

Top(act) == IF act = << >> THEN 0 ELSE act[Len(act)]
Pop(act) == IF act = << >> THEN act ELSE SubSeq(act, 1, Len(act) - 1)
InStack(act, rid) == \E i \in 1..Len(act) : act[i] = rid

Terminate(rs, rid, status) == [rs EXCEPT ![rid].status = status]

\* Faulty variant: end_run leaves the run on the stack.
EndRunActive_KeepsRun(act) == act

\* mlflow.end_run(status): ends the run on top of the stack, if there is one.
EndRunRuns(rs, act, status) == IF act = << >> THEN rs ELSE Terminate(rs, Top(act), status)
EndRunActive(act) == Pop(act)

\* ActiveRun.__exit__: ends the run only if the with-block's run is still active.
WithExitRuns(rs, act, rid, status) ==
    IF rid # 0 /\ InStack(act, rid) THEN EndRunRuns(rs, act, status) ELSE rs
WithExitActive(act, rid) ==
    IF rid # 0 /\ InStack(act, rid) THEN EndRunActive(act) ELSE act

ParamConflict(run, key, str) == \E p \in run.params : p.key = key /\ p.val # str

Artifact(path, model) ==
    [path |-> path, model |-> model, pyfunc |-> HasPredict(model.algo),
     signature |-> HasPredict(model.algo)]

\* What sklearn autologging records on a run for one fit: the estimator's
\* parameters and the fitted model (no metrics: no training labels are given).
AutoLogged(run, fitted) ==
    [run EXCEPT
       !.params = @ \cup {[key |-> h.name, val |-> PyStr(h.val)] :
                            h \in {g \in fitted.hp : ~ParamConflict(run, g.name, PyStr(g.val))}},
       !.artifacts = @ \cup {Artifact("model", fitted)}]

\* Faulty variant: the patched fit creates a run of its own even inside a run.
AutologCreatesRun_Always(act) == TRUE

\* The patched fit: with a run active it logs to that run; with none it
\* creates a run in the default experiment and ends it after the fit.
AutologCreatesRun(act) == act = << >>

AutologRuns(rs, act, fitted) ==
    IF AutologCreatesRun(act)
    THEN Append(rs, [AutoLogged(NewRun(DefaultExperiment, "", TRUE), fitted)
                       EXCEPT !.status = "FINISHED"])
    ELSE [rs EXCEPT ![Top(act)] = AutoLogged(@, fitted)]

(***************************************************************************)
(* An exception: it unwinds through the with-block, if the cell is inside  *)
(* one, and ends the cell.  No statement of the notebook catches it.       *)
(***************************************************************************)
Abort(err) ==
    /\ pc' = Idle
    /\ lastError' = err
    /\ withRun' = 0
    /\ runs' = WithExitRuns(runs, active, withRun, "FAILED")
    /\ active' = WithExitActive(active, withRun)
    /\ UNCHANGED <<env, autologOn, passPos, session, reexecs, experiments, ui>>

(***************************************************************************)
(* Executing cells.                                                        *)
(***************************************************************************)

RunNextCell ==
    /\ pc = Idle
    /\ passPos <= Len(CellOrder)
    /\ pc' = [cell |-> CellOrder[passPos], idx |-> 1]
    /\ passPos' = passPos + 1
    /\ lastError' = ""
    /\ UNCHANGED <<env, autologOn, active, withRun, session, reexecs, experiments, runs, ui>>

RerunCell(c) ==
    /\ pc = Idle
    /\ passPos > Len(CellOrder)
    /\ reexecs < MaxReexec
    /\ pc' = [cell |-> c, idx |-> 1]
    /\ reexecs' = reexecs + 1
    /\ lastError' = ""
    /\ UNCHANGED <<env, autologOn, active, withRun, passPos, session, experiments, runs, ui>>

Restart ==
    /\ pc = Idle
    /\ session < MaxSessions
    /\ session' = session + 1
    /\ env' = [n \in Names |-> Undef]
    /\ autologOn' = FALSE
    /\ active' = << >>
    /\ withRun' = 0
    /\ lastError' = ""
    /\ passPos' = 1
    /\ UNCHANGED <<pc, reexecs, experiments, runs, ui>>

RaiseNameError ==
    /\ Running
    /\ ~Bound(Cur.reads)
    /\ Abort("NameError")


(***************************************************************************)
(* Statements that only touch the kernel.                                  *)
(***************************************************************************)

KernelStep(newEnv) ==
    /\ env' = newEnv
    /\ Advance
    /\ UNCHANGED <<autologOn, active, withRun, lastError, passPos, session, reexecs,
                   experiments, runs, ui>>

ExecImport ==
    /\ At("import")
    /\ KernelStep(Bind(Cur.tgts, Imported))

\* db = load_iris()
ExecLoadIris ==
    /\ At("load_iris")
    /\ KernelStep(Bind(Cur.tgts, Mk("dataset", "", {}, 0, "iris", "")))

\* features = db.data, target = db.target, cluster_labels = trained_model.labels_
AttrValue(v, attr) ==
    CASE attr = "data" /\ v.kind = "dataset" -> Mk("matrix", "", {}, 0, "iris.data", "")
      [] attr = "target" /\ v.kind = "dataset" -> Mk("vector", "", {}, 0, "iris.target", "")
      [] attr = "labels_" /\ v.kind = "fitted" -> Mk("labels", v.algo, v.hp, v.run, v.data, "")
      [] OTHER -> Undef

ExecAttr ==
    /\ At("attr")
    /\ LET v == AttrValue(env[Cur.src], Cur.key)
       IN IF v = Undef THEN Abort("AttributeError") ELSE KernelStep(Bind(Cur.tgts, v))

\* exp_name = 'Clustering-Ejemplos'
ExecConst ==
    /\ At("const")
    /\ KernelStep(Bind(Cur.tgts, Mk("str", "", {}, 0, Cur.key, "")))

\* KMeans(...), DBSCAN(...)
ExecConstruct ==
    /\ At("construct")
    /\ KernelStep(Bind(Cur.tgts, Mk("estimator", Cur.algo, Cur.hp, 0, "", "")))

\* silhouette_score(features, cluster_labels), davies_bouldin_score(...)
ExecScore ==
    /\ At("score")
    /\ LET l == env[Cur.src]
       IN IF l.kind # "labels" THEN Abort("ValueError")
          ELSE KernelStep(Bind(Cur.tgts,
                   Mk("score", l.algo, l.hp, l.run, env["features"].data, Cur.key)))

\* input_example = np.array([features[0]])
ExecInputExample ==
    /\ At("input_example")
    /\ KernelStep(Bind(Cur.tgts, Mk("example", "", {}, 0, env["features"].data, "")))

\* mlflow.autolog()
ExecAutolog ==
    /\ At("autolog")
    /\ autologOn' = TRUE
    /\ Advance
    /\ UNCHANGED <<env, active, withRun, lastError, passPos, session, reexecs,
                   experiments, runs, ui>>

(***************************************************************************)
(* Statements that reach the tracking store.                               *)
(***************************************************************************)

\* estimator.fit(features), estimator.fit_predict(features): fit returns the
\* estimator itself, so the name fitted on and the name assigned hold the same
\* fitted model.  With autologging on, the patched fit logs as well.
ExecFit ==
    /\ At("fit")
    /\ LET e == env[Cur.src]
           fitted == Mk("fitted", e.algo, e.hp, Top(active), env["features"].data, "")
       IN IF e.kind \notin {"estimator", "fitted"} THEN Abort("AttributeError")
          ELSE /\ env' = Bind(Cur.tgts \cup {Cur.src}, fitted)
               /\ IF autologOn
                  THEN /\ runs' = AutologRuns(runs, active, fitted)
                       /\ experiments' = InitStore(experiments)
                  ELSE UNCHANGED <<experiments, runs>>
               /\ Advance
               /\ UNCHANGED <<autologOn, active, withRun, lastError, passPos, session,
                              reexecs, ui>>

\* Faulty variant: a name that exists is accepted.
CreateFails_Never(exps, name) == FALSE

\* exp_id = mlflow.create_experiment(name=exp_name): a name that exists raises.
CreateFails(exps, name) == ExperimentExists(exps, name)

ExecCreateExperiment ==
    /\ At("create_experiment")
    /\ LET name == env[Cur.src].data
           exps == InitStore(experiments)
       IN IF CreateFails(exps, name) THEN Abort("MlflowException")
          ELSE /\ experiments' = Append(exps, name)
               /\ env' = Bind(Cur.tgts,
                     [Mk("expid", "", {}, 0, "", "") EXCEPT !.id = Len(exps) + 1])
               /\ Advance
               /\ UNCHANGED <<autologOn, active, withRun, lastError, passPos, session,
                              reexecs, runs, ui>>

\* with mlflow.start_run(experiment_id=exp_id, run_name=...):
ExecStartRun ==
    /\ At("start_run")
    /\ IF active # << >> THEN Abort("Exception")
       ELSE /\ runs' = Append(runs, NewRun(env["exp_id"].id, Cur.key, FALSE))
            /\ active' = <<Len(runs) + 1>>
            /\ withRun' = Len(runs) + 1
            /\ experiments' = InitStore(experiments)
            /\ Advance
            /\ UNCHANGED <<env, autologOn, lastError, passPos, session, reexecs, ui>>

\* A log call with no run active starts one in the default experiment.
ImplicitRuns(rs, act) ==
    IF act = << >> THEN Append(rs, NewRun(DefaultExperiment, "", FALSE)) ELSE rs
ImplicitActive(rs, act) == IF act = << >> THEN <<Len(rs) + 1>> ELSE act

LogStep(newRuns) ==
    /\ runs' = newRuns
    /\ active' = ImplicitActive(runs, active)
    /\ experiments' = InitStore(experiments)
    /\ Advance
    /\ UNCHANGED <<env, autologOn, withRun, lastError, passPos, session, reexecs, ui>>

\* mlflow.log_param(key, value): a key may be logged again only with the same value.
ExecLogParam ==
    /\ At("log_param")
    /\ LET rs == ImplicitRuns(runs, active)
           rid == Top(ImplicitActive(runs, active))
           str == PyStr(Cur.val)
       IN IF ParamConflict(rs[rid], Cur.key, str) THEN Abort("MlflowException")
          ELSE LogStep([rs EXCEPT ![rid].params = @ \cup {[key |-> Cur.key, val |-> str]},
                                  ![rid].nbCalls = @ + 1])

\* mlflow.log_metric(key, value)
ExecLogMetric ==
    /\ At("log_metric")
    /\ LET rs == ImplicitRuns(runs, active)
           rid == Top(ImplicitActive(runs, active))
       IN IF env[Cur.src].kind # "score" THEN Abort("MlflowException")
          ELSE LogStep([rs EXCEPT ![rid].metrics = @ \cup {[key |-> Cur.key, val |-> env[Cur.src]]},
                                  ![rid].nbCalls = @ + 1])

\* Faulty variant: the failed signature inference is not caught.
LogModelRaises_NoPredict(model) == ~HasPredict(model.algo)

\* mlflow.sklearn.log_model(model, path, input_example=...): a model without
\* predict is logged without signature and python_function flavor, with warnings.
LogModelRaises(model) == FALSE

ExecLogModel ==
    /\ At("log_model")
    /\ LET rs == ImplicitRuns(runs, active)
           rid == Top(ImplicitActive(runs, active))
       IN IF LogModelRaises(env[Cur.src]) THEN Abort("AttributeError")
          ELSE LogStep([rs EXCEPT ![rid].artifacts = @ \cup {Artifact(Cur.key, env[Cur.src])},
                                  ![rid].nbCalls = @ + 1])

\* mlflow.end_run()
ExecEndRun ==
    /\ At("end_run")
    /\ runs' = EndRunRuns(runs, active, "FINISHED")
    /\ active' = EndRunActive(active)
    /\ Advance
    /\ UNCHANGED <<env, autologOn, withRun, lastError, passPos, session, reexecs,
                   experiments, ui>>

\* The with-block is left normally.
ExecWithExit ==
    /\ At("with_exit")
    /\ runs' = WithExitRuns(runs, active, withRun, "FINISHED")
    /\ active' = WithExitActive(active, withRun)
    /\ withRun' = 0
    /\ Advance
    /\ UNCHANGED <<env, autologOn, lastError, passPos, session, reexecs, experiments, ui>>

(***************************************************************************)
(* !mlflow ui: the server binds 127.0.0.1:5000 and serves until it is      *)
(* interrupted; while the port is in use it tries again, and gives up      *)
(* after UiMaxAttempts failed binds.  The shell's failure raises nothing.  *)
(***************************************************************************)

UiBind(busy, failed) ==
    IF busy THEN [state |-> "binding", attempts |-> failed + 1]
    ELSE [state |-> "serving", attempts |-> failed]

\* Faulty variant: the server never stops trying.
UiMayRetry_Always(failed) == TRUE

UiMayRetry(failed) == failed < UiMaxAttempts

UiLaunch ==
    /\ At("ui")
    /\ ui.state = "off"
    /\ \E busy \in BOOLEAN : ui' = UiBind(busy, 0)
    /\ UNCHANGED <<kernel, store>>

UiRetry ==
    /\ ui.state = "binding"
    /\ UiMayRetry(ui.attempts)
    /\ \E busy \in BOOLEAN : ui' = UiBind(busy, ui.attempts)
    /\ UNCHANGED <<kernel, store>>

UiGiveUp ==
    /\ ui.state = "binding"
    /\ ~UiMayRetry(ui.attempts)
    /\ ui' = UiOff
    /\ Advance
    /\ UNCHANGED <<env, autologOn, active, withRun, lastError, passPos, session, reexecs,
                   store>>

UiInterrupt ==
    /\ ui.state = "serving"
    /\ ui' = UiOff
    /\ Advance
    /\ UNCHANGED <<env, autologOn, active, withRun, lastError, passPos, session, reexecs,
                   store>>

Next ==
    \/ RunNextCell
    \/ \E c \in {CellOrder[i] : i \in 1..Len(CellOrder)} : RerunCell(c)
    \/ Restart
    \/ RaiseNameError
    \/ ExecImport
    \/ ExecLoadIris
    \/ ExecAttr
    \/ ExecConst
    \/ ExecConstruct
    \/ ExecScore
    \/ ExecInputExample
    \/ ExecAutolog
    \/ ExecFit
    \/ ExecCreateExperiment
    \/ ExecStartRun
    \/ ExecLogParam
    \/ ExecLogMetric
    \/ ExecLogModel
    \/ ExecEndRun
    \/ ExecWithExit
    \/ UiLaunch
    \/ UiRetry
    \/ UiGiveUp
    \/ UiInterrupt

Spec == Init /\ [][Next]_vars


(***************************************************************************)
(* Properties.                                                             *)
(***************************************************************************)

RunNames == {"Kmeans - K=2", "Kmeans - K=3", "DBSCAN"}
ModelPath == "Clustering_Model"
ExpName == "Clustering-Ejemplos"

\* The runs a with-block of the notebook started.
ExplicitRuns == {i \in 1..Len(runs) : runs[i].name \in RunNames}
Ended(r) == r.status # "RUNNING"
PassDone == passPos > Len(CellOrder)

\* C1: every explicitly started run that has ended holds at least one
\* parameter, at least one metric and a model artifact named Clustering_Model.
C1_EndedRunsAreComplete ==
    \A i \in ExplicitRuns :
        Ended(runs[i]) =>
            /\ runs[i].params # {}
            /\ runs[i].metrics # {}
            /\ \E a \in runs[i].artifacts : a.path = ModelPath

C1_Witness ==
    \A n \in RunNames : \E i \in ExplicitRuns : runs[i].name = n /\ Ended(runs[i])


\* What a run holds: its parameters, metrics and artifacts.
Logged(r) == <<r.params, r.metrics, r.artifacts>>

\* The score the cell computed comes from a model fitted inside run i.
ScoredIn(i) == env["score"].kind = "score" /\ env["score"].run = i

\* A model is fitted only on the loaded feature matrix.
FitAfterLoad ==
    \A n \in Names :
        (env'[n].kind = "fitted" /\ env'[n] # env[n]) =>
            (env["features"].kind = "matrix" /\ env'[n].data = "iris.data")

\* Inside a run a score is computed only from a model fitted in that run.
ScoreAfterFit ==
    \A n \in {"score", "score_2"} :
        (env'[n] # env[n] /\ env'[n].kind = "score" /\ active # << >>) =>
            (env["trained_model"].kind = "fitted" /\ env["trained_model"].run = Top(active)
             /\ env'[n].run = Top(active))

\* An ended run is never written again, and a run starts only when every
\* earlier run has ended.
LogBeforeEndAndNextRun ==
    /\ \A i \in 1..Len(runs) : Ended(runs[i]) => (i <= Len(runs') /\ runs'[i] = runs[i])
    /\ Len(runs') > Len(runs) => \A i \in 1..Len(runs) : Ended(runs[i])

\* C2 as stated: load before fit, fit before score, score before anything is
\* logged to the run, all logging before the run ends and the next one starts.
C2_Original ==
    [][/\ FitAfterLoad
       /\ ScoreAfterFit
       /\ \A i \in ExplicitRuns :
             (i <= Len(runs') /\ Logged(runs'[i]) # Logged(runs[i])) => ScoredIn(i)
       /\ LogBeforeEndAndNextRun]_vars

\* C2 (amended): load before fit, fit before score, score before any
\* log_param, log_metric or log_model call of the notebook on the run (the fit
\* itself, with autologging on, logs the estimator's parameters and a model to
\* the run before the score exists), all logging before the run ends and the
\* next one starts.
C2_NotebookLogsAfterScore ==
    [][/\ FitAfterLoad
       /\ ScoreAfterFit
       /\ \A i \in ExplicitRuns :
             (i <= Len(runs') /\ runs'[i].nbCalls # runs[i].nbCalls) => ScoredIn(i)
       /\ \A i \in ExplicitRuns :
             (i <= Len(runs') /\ Logged(runs'[i]) # Logged(runs[i])
              /\ runs'[i].nbCalls = runs[i].nbCalls) => (autologOn /\ At("fit"))
       /\ LogBeforeEndAndNextRun]_vars

C2_Witness ==
    /\ \E i \in ExplicitRuns : runs[i].name = "Kmeans - K=2" /\ Ended(runs[i])
    /\ \E i \in ExplicitRuns :
          /\ runs[i].name = "Kmeans - K=3"
          /\ runs[i].status = "RUNNING"
          /\ runs[i].nbCalls > 0
          /\ \E a \in runs[i].artifacts : a.path = "model"

\* C3 as stated: every explicitly started run has had exactly three log calls
\* of the notebook when it ends.
C3_Original ==
    \A i \in ExplicitRuns : Ended(runs[i]) => runs[i].nbCalls = 3

ExpectedCalls(name) == IF name = "Kmeans - K=2" THEN 3 ELSE 4

\* C3 (amended): when it ends, run 'Kmeans - K=2' has had exactly three log
\* calls of the notebook, and runs 'Kmeans - K=3' and 'DBSCAN' exactly four.
C3_CallsPerRun ==
    \A i \in ExplicitRuns : Ended(runs[i]) => runs[i].nbCalls = ExpectedCalls(runs[i].name)

C3_Witness ==
    /\ \E i \in ExplicitRuns :
          runs[i].name = "Kmeans - K=3" /\ Ended(runs[i]) /\ runs[i].nbCalls = 4
    /\ \E i \in ExplicitRuns :
          runs[i].name = "DBSCAN" /\ Ended(runs[i]) /\ runs[i].nbCalls = 4

\* C4: at most one run is active and no run is active between cells; the
\* end_run() of a with-block ends exactly the run the with-block started, and
\* leaving the with-block afterwards changes no run.
C4_OneRunAtATime ==
    /\ [](Len(active) <= 1 /\ (pc = Idle => active = << >>))
    /\ [][/\ At("end_run") =>
                /\ withRun # 0
                /\ active = <<withRun>>
                /\ runs[withRun].status = "RUNNING"
                /\ runs' = Terminate(runs, withRun, "FINISHED")
                /\ active' = << >>
          /\ At("with_exit") => (runs' = runs /\ active' = active)]_vars

C4_Witness ==
    /\ At("with_exit")
    /\ withRun # 0
    /\ active = << >>
    /\ runs[withRun].status = "FINISHED"
    /\ \E i \in 1..Len(runs) : runs[i].auto

\* C5: an exception ends the cell at the statement that raised it; and
\* create_experiment on a name that exists raises, starts no run and leaves
\* the store as it was.
C5_FailureEndsCell ==
    [][/\ (lastError' # "" /\ lastError = "") => (Running /\ pc' = Idle)
       /\ (pc.cell = "K2" /\ pc.idx <= 2 /\ ExperimentExists(experiments, ExpName)) =>
             /\ store' = store
             /\ active' = << >>
             /\ At("create_experiment") =>
                   (lastError' = "MlflowException" /\ pc' = Idle /\ env' = env)]_vars

C5_Witness ==
    /\ pc = Idle
    /\ lastError = "MlflowException"
    /\ ExperimentExists(experiments, ExpName)
    /\ reexecs > 0

\* C6: a model without predict aborts no cell: fitting it under autologging
\* and logging it raise nothing, and every ended run 'DBSCAN' is FINISHED and
\* holds min_samples, eps, the silhouette metric and the model artifact.
C6_MissingPredictAbsorbed ==
    /\ [](/\ lastError # "AttributeError"
          /\ \A i \in ExplicitRuns :
                (runs[i].name = "DBSCAN" /\ Ended(runs[i])) =>
                    /\ runs[i].status = "FINISHED"
                    /\ [key |-> "min_samples", val |-> "5"] \in runs[i].params
                    /\ [key |-> "eps", val |-> "0.5"] \in runs[i].params
                    /\ \E m \in runs[i].metrics : m.key = "silhoutte_score"
                    /\ \E a \in runs[i].artifacts : a.path = ModelPath /\ ~a.pyfunc)
    /\ [][(pc.cell \in {"autoDBSCAN", "DBSCAN"} /\ (At("fit") \/ At("log_model"))) =>
            (lastError' = "" /\ pc' = IF pc.idx = Len(Program(pc.cell)) THEN Idle
                                      ELSE [pc EXCEPT !.idx = @ + 1])]_vars

C6_Witness ==
    /\ pc = Idle
    /\ \E i \in ExplicitRuns :
          /\ runs[i].name = "DBSCAN"
          /\ runs[i].status = "FINISHED"
          /\ \E a \in runs[i].artifacts : a.path = ModelPath /\ ~a.pyfunc
    /\ \E i \in 1..Len(runs) :
          runs[i].auto /\ \E a \in runs[i].artifacts : a.model.algo = "DBSCAN"

RunsOf(e) == {i \in 1..Len(runs) : experiments[runs[i].exp] = e}

FirstPassDone == session = 1 /\ PassDone /\ pc = Idle /\ reexecs = 0

C8_FiveRuns ==
    FirstPassDone =>
        /\ Len(runs) = 5
        /\ Cardinality(RunsOf(ExpName)) = 3
        /\ {runs[i].name : i \in RunsOf(ExpName)} = RunNames
        /\ \A i \in RunsOf(ExpName) : ~runs[i].auto
        /\ {i \in 1..Len(runs) : runs[i].auto} = RunsOf("Default")
        /\ Cardinality(RunsOf("Default")) = 2

C8_Witness ==
    FirstPassDone /\ Len(runs) = 5 /\ Len(experiments) = 2

\* C9: in every ended explicit run each parameter the notebook logged is the
\* str() of the hyperparameter the run's model was constructed with, and runs
\* of different cells hold different parameter sets.
NotebookKeys == {"value_of_k", "min_samples", "eps"}
HpName(key) == IF key = "value_of_k" THEN "n_clusters" ELSE key
NotebookParams(r) == {p \in r.params : p.key \in NotebookKeys}

C9_ParamsMatchModel ==
    \A i \in ExplicitRuns :
        Ended(runs[i]) =>
            /\ NotebookParams(runs[i]) # {}
            /\ \A p \in NotebookParams(runs[i]) :
                  \E a \in runs[i].artifacts :
                      /\ a.path = ModelPath
                      /\ \E h \in a.model.hp : h.name = HpName(p.key) /\ PyStr(h.val) = p.val
            /\ \A j \in ExplicitRuns :
                  (Ended(runs[j]) /\ runs[j].name # runs[i].name) =>
                      NotebookParams(runs[j]) # NotebookParams(runs[i])

C9_Witness ==
    /\ \E i \in ExplicitRuns :
          Ended(runs[i]) /\ NotebookParams(runs[i]) = {[key |-> "value_of_k", val |-> "3"]}
    /\ \E i \in ExplicitRuns :
          Ended(runs[i]) /\ [key |-> "eps", val |-> "0.5"] \in NotebookParams(runs[i])

\* C10: in whatever order the run cells are executed again, every metric and
\* the model artifact of a run come from the model fitted inside that run on
\* the Iris feature matrix, and features and target are never anything else.
MetricFn(key) == IF key = "silhoutte_score" THEN "silhouette_score" ELSE key

C10_NoLeftovers ==
    /\ \A i \in ExplicitRuns :
          /\ \A m \in runs[i].metrics :
                /\ m.val.run = i
                /\ m.val.data = "iris.data"
                /\ m.val.metric = MetricFn(m.key)
          /\ \A a \in runs[i].artifacts :
                a.model.run = i /\ a.model.data = "iris.data"
    /\ env["features"] \in {Undef, Mk("matrix", "", {}, 0, "iris.data", "")}
    /\ env["target"] \in {Undef, Mk("vector", "", {}, 0, "iris.target", "")}

C10_Witness ==
    \E i, j \in ExplicitRuns :
        /\ i < j
        /\ runs[i].name = "DBSCAN"
        /\ runs[j].name = "Kmeans - K=3"
        /\ Ended(runs[j])
        /\ runs[j].metrics # {}

=============================================================================
